---- MODULE Spec2Model ----
(***************************************************************************)
(* Model of the push-to-talk daemon of src/lib/core/ptt.py: the event loop *)
(* run(), start_recording, stop_recording_and_transcribe and type_text,    *)
(* together with the environment they talk to (the evdev event buffer, the *)
(* recorder child processes, the recordings directory, the resampler, the  *)
(* speech-recognition engine and the output backends).                     *)
(*                                                                         *)
(* The daemon is one thread.  pc is its position: it is either blocked in  *)
(* keyboard.read_loop() ("read") or blocked inside a handler at one of the *)
(* places where it waits for an external process.  Key events and SIGINT   *)
(* arrive at any position; key events wait in the device buffer (pending). *)
(***************************************************************************)
EXTENDS Integers, Sequences, FiniteSets, TLC

\* ---------------------------------------------------------------- bounds
MaxEvents == 4        \* key events the environment produces in one run
MaxPending == 2       \* events waiting in the device buffer at one time
MaxFiles == MaxEvents \* every temp file needs an event of its own

\* ------------------------------------------------------------- constants
None == 0             \* Python's None for handles and file objects
Absent == 0 - 1       \* size of a path that does not exist
MinAudioBytes == 1000
MinResampledBytes == 100

CaptureSizes == {200, 999, 1000, 1001}
ResampledSizes == {100, 101}

VARIABLES
    recording,              \* self.recording
    recording_process,      \* self.recording_process: None or a pid
    temp_audio,             \* self.temp_audio: None or a file of RECORDINGS_DIR
    recording_key_pressed,  \* self.recording_key_pressed
    is_root,                \* os.geteuid() == 0
    devices,                \* evdev.list_devices(): the kind of each device
    answer,                 \* what input() at line 97 does
    keyboard,               \* self.keyboard: None or an index of devices
    pc,                     \* position of the daemon's only thread
    method,                 \* index of the for loop over recording_methods
    popen_calls,            \* history: methods given to Popen in this session
    file_size,              \* local file_size of stop_recording_and_transcribe
    whisper_audio_file,     \* local whisper_audio_file
    resampled_audio,        \* local resampled_audio
    subprocess_bound,       \* the function-local name subprocess is bound
    transcription,          \* local transcription
    result,                 \* local result of line 296, while type_text runs
    pending,                \* events buffered by the keyboard device
    nevents,                \* events produced so far
    alive,                  \* recorder processes that are running
    signalled,              \* running recorders that were sent SIGTERM
    files,                  \* RECORDINGS_DIR: file -> size, Absent if none
    calls_start,            \* history: calls of start_recording by run()
    calls_stop,             \* history: calls of stop_recording_and_transcribe
    nstart,                 \* history: accepted GestureStarts
    outcomes,               \* history: terminal reports of the open session
    outcome,                \* history: last terminal report
    stages,                 \* history: external stages run in this session
    captured_file,          \* history: the temp file of this session
    resample_result,        \* history: how the resampler ended
    engine_input,           \* history: the -f argument given to the engine
    delivered,              \* history: delivery method of type_text
    attempts,               \* history: output backends tried by type_text
    succeeded,              \* history: tried output backends that delivered
    reported_text,          \* history: text of the "Could not type" report
    busy_start              \* history: the event of the last accepted start
                            \* had arrived while the daemon was not Idle

vars == <<recording, recording_process, temp_audio, recording_key_pressed,
          is_root, devices, answer, keyboard, pc, method, popen_calls,
          file_size, whisper_audio_file, resampled_audio,
          subprocess_bound, transcription, result, pending, nevents, alive,
          signalled,
          files, calls_start, calls_stop, nstart, outcomes, outcome, stages, captured_file,
          resample_result, engine_input, delivered, attempts, succeeded,
          reported_text, busy_start>>

daemon == <<recording, recording_process, temp_audio, recording_key_pressed>>
locals == <<method, popen_calls, file_size, whisper_audio_file, resampled_audio,
            subprocess_bound, transcription, result>>
procs == <<alive, signalled>>
startup == <<is_root, devices, answer, keyboard>>
output == <<attempts, succeeded, reported_text>>
history == <<nstart, outcomes, outcome, stages, captured_file,
             resample_result, engine_input, delivered, output, busy_start>>

\* ------------------------------------------------------------ the device
RECORD_KEY == "KEY_RIGHTALT"

KeyEvents ==
    [type : {"EV_KEY"}, code : {RECORD_KEY}, value : {0, 1, 2}]
    \cup [type : {"EV_KEY"}, code : {"KEY_A"}, value : {1}]
    \cup [type : {"EV_SYN"}, code : {"SYN_REPORT"}, value : {0}]

Running == pc \notin {"crashed", "exited"}

\* The session state of the specification, read off the daemon.
Idle == pc = "read" /\ ~recording

\* ------------------------------------------------------------- the files
FileIds == 1 .. MaxFiles
Exists(f) == f # None /\ files[f] # Absent
\* tempfile.NamedTemporaryFile(dir=RECORDINGS_DIR, delete=False): an unused name
FreshIn(fs) == CHOOSE f \in FileIds :
                   /\ fs[f] = Absent
                   /\ \A g \in FileIds : fs[g] = Absent => f <= g
FreshFile == FreshIn(files)
FreshPid == CHOOSE p \in 1 .. (Cardinality(alive) + 1) :
                /\ p \notin alive
                /\ \A q \in 1 .. (Cardinality(alive) + 1) : q \notin alive => p <= q

\* Popen.poll() is None
poll_is_None(p) == p \in alive

\* Popen.terminate(): SIGTERM to a process that has not been reaped
terminate(p) == IF p \in alive THEN signalled \cup {p} ELSE signalled

recording_methods ==
    IF is_root
    THEN <<"FFmpeg (PulseAudio)", "FFmpeg (ALSA hw:1,0)", "FFmpeg (ALSA default)">>
    ELSE <<"pw-record (PipeWire)", "parecord (PulseAudio/PipeWire)",
           "FFmpeg (PulseAudio/PipeWire)", "FFmpeg (ALSA hw:1,0)",
           "FFmpeg (ALSA default)", "arecord (ALSA hw:1,0)",
           "arecord (ALSA default)">>

\* No subprocess.run of the engine has returned in this call.
NoResult == [kind |-> "none", returncode |-> 0, stdout |-> <<>>]

\* input() at line 97 is not reached.
NoAnswer == [kind |-> "blank", n |-> 0]

Init ==
    /\ recording = FALSE
    /\ recording_process = None
    /\ temp_audio = None
    /\ recording_key_pressed = FALSE
    /\ is_root \in BOOLEAN
    /\ devices = <<"keyboard">>
    /\ answer = NoAnswer
    /\ keyboard = 1
    /\ pc = "read"
    /\ method = 0
    /\ popen_calls = <<>>
    /\ file_size = Absent
    /\ whisper_audio_file = None
    /\ resampled_audio = None
    /\ subprocess_bound = FALSE
    /\ transcription = <<>>
    /\ result = NoResult
    /\ pending = <<>>
    /\ nevents = 0
    /\ alive = {}
    /\ signalled = {}
    /\ files = [f \in FileIds |-> Absent]
    /\ calls_start = 0
    /\ calls_stop = 0
    /\ nstart = 0
    /\ outcomes = 0
    /\ outcome = "none"
    /\ stages = {}
    /\ captured_file = None
    /\ resample_result = "none"
    /\ engine_input = None
    /\ delivered = "none"
    /\ attempts = <<>>
    /\ succeeded = {}
    /\ reported_text = <<>>
    /\ busy_start = FALSE

\* ------------------------------------------------------- the environment
\* A key transition or another input event reaches the device buffer.  The
\* event remembers whether the daemon was Idle when it happened.
KeyEvent ==
    /\ Running
    /\ nevents < MaxEvents
    /\ Len(pending) < MaxPending
    /\ \E e \in KeyEvents :
           pending' = Append(pending, [type |-> e.type, code |-> e.code,
                                       value |-> e.value, idle |-> Idle])
    /\ nevents' = nevents + 1
    /\ UNCHANGED <<daemon, startup, pc, locals, procs, files,
                   calls_start, calls_stop, history>>

\* A recorder process ends, by itself or because of an earlier SIGTERM.
RecorderExits ==
    /\ \E p \in alive :
           /\ alive' = alive \ {p}
           /\ signalled' = signalled \ {p}
    /\ UNCHANGED <<daemon, startup, pc, locals, pending, nevents, files,
                   calls_start, calls_stop, history>>

\* ------------------------------------------------------ start_recording
\* Lines 120-192: the guard, the temp file and the reset of the handle.
start_recording(idle) ==
    IF recording
    THEN UNCHANGED <<recording, recording_process, temp_audio, pc, locals,
                     procs, files, history>>
    ELSE /\ recording' = TRUE
         /\ temp_audio' = FreshFile
         /\ files' = [files EXCEPT ![FreshFile] = 0]
         /\ recording_process' = None
         /\ method' = 1
         /\ popen_calls' = <<>>
         /\ pc' = "popen"
         /\ nstart' = nstart + 1
         /\ outcomes' = 0
         /\ outcome' = "none"
         /\ stages' = {}
         /\ captured_file' = FreshFile
         /\ resample_result' = "none"
         /\ engine_input' = None
         /\ delivered' = "none"
         /\ attempts' = <<>>
         /\ succeeded' = {}
         /\ reported_text' = <<>>
         /\ busy_start' = ~idle
         \* the locals of the previous stop_recording_and_transcribe are gone
         /\ file_size' = Absent
         /\ whisper_audio_file' = None
         /\ resampled_audio' = None
         /\ subprocess_bound' = FALSE
         /\ transcription' = <<>>
         /\ result' = NoResult
         /\ UNCHANGED procs

\* "continue" of the for loop of line 194: the next method, or the end.
next_method ==
    IF method < Len(recording_methods)
    THEN method' = method + 1 /\ pc' = "popen"
    ELSE method' = method /\ pc' = "check"

\* What subprocess.Popen can do with the command of a method.
PopenResults == {"spawned", "FileNotFoundError", "OSError"}

\* Lines 195-205 and 218-220: one Popen of the loop.
spawn_backend ==
    /\ pc = "popen"
    /\ \E r \in PopenResults :
           IF r = "spawned"
           THEN /\ alive' = alive \cup {FreshPid}
                /\ recording_process' = FreshPid
                /\ pc' = "sleep"
                /\ UNCHANGED method
           ELSE IF r = "FileNotFoundError"
           THEN /\ next_method
                /\ UNCHANGED <<alive, recording_process>>
           ELSE \* any other exception leaves start_recording and run()
                /\ pc' = "crashed"
                /\ UNCHANGED <<alive, recording_process, method>>
    /\ popen_calls' = Append(popen_calls, method)
    /\ UNCHANGED <<recording, temp_audio, recording_key_pressed, startup,
                   file_size, whisper_audio_file, resampled_audio,
                   subprocess_bound, transcription, result, pending, nevents,
                   signalled, files, calls_start, calls_stop, history>>

\* Variant of grace_period: no break after a recorder that still runs.
grace_period_no_break ==
    /\ pc = "sleep"
    /\ next_method
    /\ UNCHANGED <<daemon, startup, popen_calls, file_size, whisper_audio_file,
                   resampled_audio, subprocess_bound, transcription, result, pending,
                   nevents, procs, files, calls_start, calls_stop, history>>

\* Lines 208-216: after the grace period, keep a recorder that still runs.
grace_period ==
    /\ pc = "sleep"
    /\ IF poll_is_None(recording_process)
       THEN pc' = "check" /\ UNCHANGED method
       ELSE next_method
    /\ UNCHANGED <<daemon, startup, popen_calls, file_size, whisper_audio_file,
                   resampled_audio, subprocess_bound, transcription, result, pending,
                   nevents, procs, files, calls_start, calls_stop, history>>

\* Lines 223-227: no method worked.
all_methods_failed ==
    /\ pc = "check"
    /\ pc' = "read"
    /\ IF recording_process = None \/ ~poll_is_None(recording_process)
       THEN /\ recording' = FALSE
            /\ recording_process' = None
            /\ outcomes' = outcomes + 1
            /\ outcome' = "AllBackendsFailed"
       ELSE UNCHANGED <<recording, recording_process, outcomes, outcome>>
    /\ UNCHANGED <<temp_audio, recording_key_pressed, startup, locals, pending,
                   nevents, procs, files, calls_start, calls_stop, nstart,
                   stages, captured_file, resample_result, engine_input,
                   delivered, output, busy_start>>

\* ------------------------------------------- stop_recording_and_transcribe
\* Lines 231-237: the guard, the flag and the SIGTERM.
stop_recording_and_transcribe ==
    IF ~recording \/ recording_process = None
    THEN UNCHANGED <<recording, recording_process, temp_audio, pc, locals,
                     procs, files, history>>
    ELSE /\ recording' = FALSE
         /\ signalled' = terminate(recording_process)
         /\ pc' = "communicate"
         /\ file_size' = Absent
         /\ whisper_audio_file' = None
         /\ resampled_audio' = None
         /\ subprocess_bound' = FALSE
         /\ transcription' = <<>>
         /\ result' = NoResult
         /\ UNCHANGED <<recording_process, temp_audio, method, popen_calls, alive, files,
                        history>>

\* Variant of communicate_timeout: the TimeoutExpired is caught and the
\* function returns, the recorder left running.
communicate_timeout_swallowed ==
    /\ pc' = "read"
    /\ UNCHANGED <<procs, files, file_size, whisper_audio_file,
                   resampled_audio, subprocess_bound, outcomes, outcome>>

\* Line 238: communicate(timeout=1) raises TimeoutExpired, which nothing
\* catches: the exception leaves run() and the daemon ends with a traceback.
communicate_timeout ==
    /\ pc' = "crashed"
    /\ UNCHANGED <<procs, files, file_size, whisper_audio_file,
                   resampled_audio, subprocess_bound, outcomes, outcome>>

\* Variant of too_small: the threshold of the resampled file is used.
too_small_wrong_threshold(size) == size < MinResampledBytes

\* Line 245
too_small(size) == size < MinAudioBytes

\* Line 254
needs_resample(size) == size > MinAudioBytes

\* Lines 240-261: the recorder has been reaped and left size bytes.
check_file_size(size) ==
    LET written == [files EXCEPT ![temp_audio] = size]
    IN  /\ alive' = alive \ {recording_process}
        /\ signalled' = signalled \ {recording_process}
        /\ file_size' = size
        /\ IF too_small(size)
           THEN /\ outcomes' = outcomes + 1
                /\ outcome' = "NoAudioCaptured"
                /\ pc' = "read"
                /\ files' = written
                /\ UNCHANGED <<whisper_audio_file, resampled_audio,
                               subprocess_bound>>
           ELSE /\ whisper_audio_file' = temp_audio
                /\ UNCHANGED <<outcomes, outcome>>
                /\ IF needs_resample(size)
                   THEN /\ subprocess_bound' = TRUE   \* import of line 257
                        /\ resampled_audio' = FreshIn(written)
                        /\ files' = [written EXCEPT ![FreshIn(written)] = 0]
                        /\ pc' = "resample"
                   ELSE /\ files' = written
                        /\ pc' = "engine"
                        /\ UNCHANGED <<resampled_audio, subprocess_bound>>

\* Line 238 and what follows it up to the next wait.
wait_for_recorder ==
    /\ pc = "communicate"
    /\ \E exits \in BOOLEAN, size \in CaptureSizes :
           IF poll_is_None(recording_process) /\ ~exits
           THEN communicate_timeout
           ELSE check_file_size(size)
    /\ UNCHANGED <<daemon, startup, method, popen_calls, transcription, result, pending, nevents,
                   calls_start, calls_stop, nstart, stages, captured_file,
                   resample_result, engine_input, delivered, output,
                   busy_start>>

\* The finally clause, lines 328-332.
unlinked == IF Exists(temp_audio)
            THEN [files EXCEPT ![temp_audio] = Absent]
            ELSE files

\* What subprocess.run(resample_cmd, capture_output=True, timeout=5) can do.
ResampleResults ==
    [kind : {"completed"}, returncode : {0, 1}, size : ResampledSizes]
    \cup [kind : {"TimeoutExpired", "FileNotFoundError"},
          returncode : {1}, size : {0}]

\* Variant of resample_succeeded: "or" in place of "and".
resample_succeeded_either(r) == r.returncode = 0 \/ r.size > MinResampledBytes

\* Line 271
resample_succeeded(r) == r.returncode = 0 /\ r.size > MinResampledBytes

ResampleOutcome(r) ==
    IF r.kind # "completed" THEN r.kind
    ELSE IF r.returncode # 0 THEN "nonzero"
    ELSE IF r.size <= MinResampledBytes THEN "small"
    ELSE "ok"

\* Lines 263-280
resample ==
    /\ pc = "resample"
    /\ \E r \in ResampleResults :
           /\ resample_result' = ResampleOutcome(r)
           /\ IF r.kind = "completed"
              THEN IF resample_succeeded(r)
                   THEN /\ whisper_audio_file' = resampled_audio
                        /\ files' = [files EXCEPT ![resampled_audio] = r.size]
                   ELSE /\ files' = [files EXCEPT ![resampled_audio] = Absent]
                        /\ UNCHANGED whisper_audio_file
              ELSE \* except Exception: pass
                   UNCHANGED <<whisper_audio_file, files>>
    /\ stages' = stages \cup {"resample"}
    /\ pc' = "engine"
    /\ UNCHANGED <<daemon, startup, method, popen_calls, file_size,
                   resampled_audio,
                   subprocess_bound, transcription, result, pending, nevents, procs,
                   calls_start, calls_stop, nstart, outcomes, outcome,
                   captured_file, engine_input, delivered, output,
                   busy_start>>

\* ------------------------------------------------------------ the engine
\* Standard output of the engine as a sequence of tokens: words, blanks,
\* newlines, the end-of-text sentinel and terminal escape sequences.
Whitespace == {" ", "\n"}
Sentinel == "<|endoftext|>"
ColourCodes == {"ESC[0m", "ESC[1;32m"}          \* \x1b\[[0-9;]*m
ControlCodes == {"ESC[0m", "ESC[2K"}            \* \x1b\[[0-9]*[A-Za-z]

RECURSIVE lstrip(_)
lstrip(s) == IF s # <<>> /\ Head(s) \in Whitespace THEN lstrip(Tail(s)) ELSE s

RECURSIVE rstrip(_)
rstrip(s) == IF s # <<>> /\ s[Len(s)] \in Whitespace
             THEN rstrip(SubSeq(s, 1, Len(s) - 1))
             ELSE s

\* str.strip()
strip(s) == rstrip(lstrip(s))

\* s.split('\n')[-1]
last_line(s) ==
    LET breaks == {i \in 1 .. Len(s) : s[i] = "\n"}
    IN  IF breaks = {} THEN s
        ELSE SubSeq(s, (CHOOSE i \in breaks : \A j \in breaks : j <= i) + 1, Len(s))

without(s, tokens) == SelectSeq(s, LAMBDA t : t \notin tokens)

\* Lines 304-314
transcription_of(stdout) ==
    LET line == strip(last_line(strip(stdout)))
        text == strip(without(line, {Sentinel}))
    IN  strip(without(without(text, ColourCodes), ControlCodes))

Stdouts == {<<>>,
            <<"hello", " ", "world", Sentinel, "\n">>,
            <<"log", "\n", "ESC[1;32m", "hello", "ESC[0m", Sentinel>>,
            <<"log", "\n", " ", "ESC[0m", "\n">>}

\* What subprocess.run(cmd, capture_output=True, text=True, timeout=10) can do.
EngineResults ==
    [kind : {"completed"}, returncode : {0, 1}, stdout : Stdouts]
    \cup [kind : {"TimeoutExpired", "Exception"}, returncode : {1},
          stdout : {<<>>}]

\* Variant of report_abort: an engine timeout is swallowed without a report.
report_abort_silent(kind) ==
    IF kind = "TimeoutExpired"
    THEN UNCHANGED <<outcome, outcomes>>
    ELSE /\ outcome' = IF kind = "completed" THEN "NoSpeechDetected" ELSE "Error"
         /\ outcomes' = outcomes + 1

\* Lines 320, 325 and 327: the report of a session that ends without text.
report_abort(kind) ==
    /\ outcome' = IF kind = "completed" THEN "NoSpeechDetected"
                  ELSE IF kind = "TimeoutExpired" THEN "TranscriptionTimeout"
                  ELSE "Error"
    /\ outcomes' = outcomes + 1

\* Lines 283-332 up to the call of type_text.  The name subprocess is local
\* to the function (line 257 imports it): when the resample block was skipped
\* it is unbound, lines 296 and 324 raise UnboundLocalError, the finally
\* clause runs and the exception leaves run().
transcribe ==
    /\ pc = "engine"
    /\ IF ~subprocess_bound
       THEN /\ pc' = "crashed"
            /\ files' = unlinked
            /\ temp_audio' = None
            /\ UNCHANGED <<transcription, result, stages, engine_input, outcomes,
                           outcome>>
       ELSE \E r \in EngineResults :
                /\ stages' = stages \cup {"engine"}
                /\ engine_input' = whisper_audio_file
                /\ IF r.kind = "completed" /\ transcription_of(r.stdout) # <<>>
                   THEN /\ transcription' = transcription_of(r.stdout)
                        /\ result' = r
                        /\ pc' = "type"
                        /\ UNCHANGED <<files, temp_audio, outcomes, outcome>>
                   ELSE /\ report_abort(r.kind)
                        /\ pc' = "read"
                        /\ files' = unlinked
                        /\ temp_audio' = None
                        /\ UNCHANGED <<transcription, result>>
    /\ UNCHANGED <<recording, recording_process, recording_key_pressed,
                   startup, method, popen_calls, file_size, whisper_audio_file,
                   resampled_audio, subprocess_bound, pending, nevents, procs,
                   calls_start, calls_stop, nstart, captured_file,
                   resample_result, delivered, output, busy_start>>

\* -------------------------------------------------------------- type_text
OutputBackends == <<"ydotool", "xdotool", "wl-copy", "xclip">>

BackendNames == {OutputBackends[i] : i \in 1 .. Len(OutputBackends)}

\* What the subprocess.run calls made for one backend can do: deliver, exit
\* non-zero (CalledProcessError), be absent (the "which" check fails or
\* FileNotFoundError), or never exit: none of the calls has a timeout.
BackendResults == {"ok", "failed", "missing", "hangs"}

\* Lines 357-358, 371-372, 386 and 396: the except clauses
returned_False(r) == r \in {"failed", "missing"}

\* Lines 374-397: wl-copy, then xclip; the backends tried.
copy_to_clipboard(env) ==
    IF ~returned_False(env["wl-copy"])
    THEN <<"wl-copy">>
    ELSE <<"wl-copy", "xclip">>

\* Variant of type_text: the result of try_ydotool and try_xdotool is dropped.
type_text_no_return(env) == <<"ydotool", "xdotool">> \o copy_to_clipboard(env)

\* Lines 334-345: the backends tried, in the order of the calls.
type_text(env) ==
    IF ~returned_False(env["ydotool"])
    THEN <<"ydotool">>
    ELSE IF ~returned_False(env["xdotool"])
    THEN <<"ydotool", "xdotool">>
    ELSE <<"ydotool", "xdotool">> \o copy_to_clipboard(env)

\* Variant of undelivered_report: the message leaves the text out.
undelivered_report_without_text(text) == <<>>

\* Line 397: the report of a text that could be neither typed nor copied
undelivered_report(text) == text

\* Line 318 and the finally clause.  A backend that never exits leaves the
\* daemon inside subprocess.run.
dispatch ==
    /\ pc = "type"
    /\ \E env \in [BackendNames -> BackendResults] :
           LET tried == type_text(env)
               ok == {b \in BackendNames :
                         \E i \in 1 .. Len(tried) : tried[i] = b /\ env[b] = "ok"}
               hung == \E i \in 1 .. Len(tried) : env[tried[i]] = "hangs"
           IN  /\ attempts' = tried
               /\ succeeded' = ok
               /\ IF hung
                  THEN /\ pc' = "blocked"
                       /\ UNCHANGED <<delivered, reported_text, outcomes,
                                      outcome, files, temp_audio, result>>
                  ELSE /\ delivered' = IF env[tried[Len(tried)]] = "ok"
                                       THEN tried[Len(tried)]
                                       ELSE "DeliveryFailed"
                       /\ reported_text' = IF ok = {}
                                           THEN undelivered_report(transcription)
                                           ELSE <<>>
                       /\ outcomes' = outcomes + 1
                       /\ outcome' = "Dispatched"
                       /\ files' = unlinked
                       /\ temp_audio' = None
                       /\ result' = NoResult
                       /\ pc' = "read"
    /\ stages' = stages \cup {"type_text"}
    /\ UNCHANGED <<recording, recording_process, recording_key_pressed,
                   startup, method, popen_calls, file_size, whisper_audio_file,
                   resampled_audio, subprocess_bound, transcription, pending,
                   nevents, procs, calls_start, calls_stop, nstart,
                   captured_file, resample_result, engine_input, busy_start>>

\* -------------------------------------------------------------------- run
\* Variant of IsTrigger: every key counts as the trigger key.
IsTrigger_any_key(e) == e.type = "EV_KEY"

\* Lines 402 and 407: a key event whose keycode is KEY_RIGHTALT
IsTrigger(e) == e.type = "EV_KEY" /\ e.code = RECORD_KEY

\* Variant of run_key_down: no test of recording_key_pressed.
run_key_down_unguarded ==
    /\ pc = "read"
    /\ pending # <<>>
    /\ IsTrigger(Head(pending)) /\ Head(pending).value = 1
    /\ pending' = Tail(pending)
    /\ recording_key_pressed' = TRUE
    /\ calls_start' = calls_start + 1
    /\ start_recording(Head(pending).idle)
    /\ UNCHANGED <<startup, nevents, calls_stop>>

\* Lines 409-412
run_key_down ==
    /\ pc = "read"
    /\ pending # <<>>
    /\ IsTrigger(Head(pending)) /\ Head(pending).value = 1
    /\ pending' = Tail(pending)
    /\ IF ~recording_key_pressed
       THEN /\ recording_key_pressed' = TRUE
            /\ calls_start' = calls_start + 1
            /\ start_recording(Head(pending).idle)
       ELSE UNCHANGED <<daemon, pc, locals, procs, files, calls_start, history>>
    /\ UNCHANGED <<startup, nevents, calls_stop>>

\* Lines 413-416
run_key_up ==
    /\ pc = "read"
    /\ pending # <<>>
    /\ IsTrigger(Head(pending)) /\ Head(pending).value = 0
    /\ pending' = Tail(pending)
    /\ IF recording_key_pressed
       THEN /\ recording_key_pressed' = FALSE
            /\ calls_stop' = calls_stop + 1
            /\ stop_recording_and_transcribe
       ELSE UNCHANGED <<daemon, pc, locals, procs, files, calls_stop, history>>
    /\ UNCHANGED <<startup, nevents, calls_start>>

\* Lines 402-408: every other event is read and dropped.
run_other_event ==
    /\ pc = "read"
    /\ pending # <<>>
    /\ ~(IsTrigger(Head(pending)) /\ Head(pending).value \in {0, 1})
    /\ pending' = Tail(pending)
    /\ UNCHANGED <<daemon, startup, pc, locals, nevents, procs, files,
                   calls_start, calls_stop, history>>

\* Lines 418-422: SIGINT.  Inside the try of line 295 the finally clause runs
\* first; the handler signals the recorder it has a handle of and exits.
KeyboardInterrupt ==
    /\ Running
    /\ pc' = "exited"
    /\ signalled' = IF recording_process # None
                    THEN terminate(recording_process)
                    ELSE signalled
    /\ IF pc \in {"engine", "type", "blocked"}
       THEN files' = unlinked /\ temp_audio' = None
       ELSE UNCHANGED <<files, temp_audio>>
    /\ UNCHANGED <<recording, recording_process, recording_key_pressed,
                   startup, locals, pending, nevents, alive, calls_start,
                   calls_stop, history>>

Next ==
    \/ KeyEvent
    \/ RecorderExits
    \/ KeyboardInterrupt
    \/ run_key_down
    \/ run_key_up
    \/ run_other_event
    \/ spawn_backend
    \/ grace_period
    \/ all_methods_failed
    \/ wait_for_recorder
    \/ resample
    \/ transcribe
    \/ dispatch

Spec == Init /\ [][Next]_vars

\* ================================================================ claims

\* C1: at most one recorder process spawned by the daemon is running in any
\* reachable state, and whenever start_recording is about to spawn a backend
\* no recorder spawned earlier (in this or a previous session) still runs.
C1_AtMostOneRecorder ==
    /\ Cardinality(alive) <= 1
    /\ pc = "popen" => alive = {}

\* C1 witness: a second session records after the first recorder was reaped.
C1_SecondSessionRecords ==
    nstart = 2 /\ pc = "read" /\ recording /\ alive = {recording_process}

\* C2: every session reports at most one terminal outcome, and a GestureStart
\* is accepted only when the daemon is Idle and the previous session, if any,
\* has reported exactly one terminal outcome.
C2_OneOutcomePerSession ==
    /\ [](outcomes <= 1)
    /\ [][nstart' # nstart =>
            /\ Idle
            /\ nstart' = nstart + 1
            /\ nstart > 0 => outcomes = 1]_vars

\* C2 witness: a second GestureStart was accepted after a transcribed session.
C2_SecondStartAccepted ==
    nstart = 2 /\ recording /\ outcomes = 0 /\ captured_file # None
    /\ calls_stop = 1 /\ pc = "popen"

\* C3: run() calls start_recording only on a trigger key-down read while
\* recording_key_pressed is false, and stop_recording_and_transcribe only on a
\* trigger key-up read while it is true; the calls alternate, start first.
C3_StartStopAlternate ==
    [][/\ calls_start' # calls_start =>
            /\ IsTrigger(Head(pending)) /\ Head(pending).value = 1
            /\ ~recording_key_pressed
            /\ calls_start' = calls_start + 1
            /\ calls_start = calls_stop
       /\ calls_stop' # calls_stop =>
            /\ IsTrigger(Head(pending)) /\ Head(pending).value = 0
            /\ recording_key_pressed
            /\ calls_stop' = calls_stop + 1
            /\ calls_start = calls_stop + 1]_vars

\* C3 witness: during the second hold a repeated down event of the trigger
\* is the next event to be read.
C3_RepeatDuringSecondHold ==
    /\ pc = "read" /\ recording_key_pressed
    /\ calls_start = 2 /\ calls_stop = 1
    /\ pending # <<>>
    /\ IsTrigger(Head(pending)) /\ Head(pending).value \in {1, 2}

\* C4 (as claimed): a trigger key-down that happens while the daemon is not
\* Idle never starts a recording, not even when it is read later.
C4_BusyGestureStartIgnored == ~busy_start

\* C5: a captured file below the minimum size ends the session as
\* NoAudioCaptured with no resampler, engine or type_text run in it.
C5_NoAudioSkipsPipeline ==
    (file_size # Absent /\ file_size < MinAudioBytes) =>
        /\ outcome = "NoAudioCaptured"
        /\ stages = {}
        /\ engine_input = None
        /\ delivered = "none"

\* C5 witness: stop_recording_and_transcribe returned on a 999 byte capture.
C5_ShortCaptureReturned ==
    pc = "read" /\ file_size = 999 /\ outcome = "NoAudioCaptured"

\* C6 (as claimed): after a NoAudioCaptured session the temp file is removed
\* and the daemon holds no temp file and is not recording.
C6_NoAudioRemovesTempFile ==
    (pc = "read" /\ outcome = "NoAudioCaptured") =>
        /\ ~Exists(captured_file)
        /\ temp_audio = None
        /\ ~recording

\* C7 (as claimed): when a session that reached transcription has returned,
\* neither the captured nor the resampled temp file exists.
C7_TranscriptionRemovesTempFiles ==
    (pc = "read" /\ outcome \in {"Dispatched", "NoSpeechDetected",
                                 "TranscriptionTimeout", "Error"}) =>
        /\ ~Exists(captured_file)
        /\ ~Exists(resampled_audio)

\* C8 (as claimed): no recorder runs while the daemon is Idle or has ended on
\* an exception, and one that runs when the daemon exits has been signalled.
C8_NoOrphanRecorder ==
    /\ (Idle \/ pc = "crashed") => alive = {}
    /\ pc = "exited" => alive \subseteq signalled

\* C9 (as claimed): no failure of a session ends the event loop.
C9_SessionFailureKeepsDaemon == pc # "crashed"

\* C10: the engine's input is the resampled file exactly when the resample
\* succeeded and the captured file otherwise, and a session whose resample
\* failed still runs the engine before it returns.
C10_ResampleFailureFallsBack ==
    /\ "engine" \in stages =>
           engine_input = IF resample_result = "ok" THEN resampled_audio
                          ELSE captured_file
    /\ (resample_result \notin {"none", "ok"} /\ pc \in {"type", "read"}) =>
           "engine" \in stages /\ engine_input = captured_file

\* C10 witness: the engine ran on the captured file after a resample timeout.
C10_EngineAfterResampleTimeout ==
    /\ resample_result = "TimeoutExpired"
    /\ "engine" \in stages
    /\ engine_input = captured_file
    /\ pc = "read"

\* C11 (as claimed): when all recording backends have failed the daemon is
\* Idle with no recorder handle and the session claims no temp file.
C11_AllBackendsFailedReleases ==
    (pc = "read" /\ outcome = "AllBackendsFailed") =>
        /\ ~recording
        /\ recording_process = None
        /\ temp_audio = None
        /\ ~Exists(captured_file)

\* C12: type_text tries the output backends in the order ydotool, xdotool,
\* wl-copy, xclip; at most one tried backend delivers, it is the last one
\* tried, and it is the delivery method.
C12_OutputChainInOrder ==
    /\ Len(attempts) <= Len(OutputBackends)
    /\ \A i \in 1 .. Len(attempts) : attempts[i] = OutputBackends[i]
    /\ Cardinality(succeeded) <= 1
    /\ \A b \in succeeded : attempts[Len(attempts)] = b /\ delivered \in {b, "none"}
    /\ delivered \in BackendNames => succeeded = {delivered}

\* C12 witness: the first three backends failed and xclip delivered.
C12_LastBackendDelivered ==
    /\ pc = "read"
    /\ attempts = OutputBackends
    /\ succeeded = {"xclip"}
    /\ delivered = "xclip"

\* C13: when none of the four output backends delivers, type_text returns
\* (the session ends as dispatched, the daemon is not ended by an exception)
\* and the text of its report is the transcript it was given.
C13_DeliveryFailedKeepsText ==
    delivered = "DeliveryFailed" =>
        /\ attempts = OutputBackends
        /\ succeeded = {}
        /\ outcome = "Dispatched"
        /\ pc \in {"read", "exited"}
        /\ transcription # <<>>
        /\ reported_text = transcription

\* C13 witness: a session returned with DeliveryFailed.
C13_AllOutputBackendsFailed ==
    pc = "read" /\ delivered = "DeliveryFailed" /\ ~recording

\* C18 (as claimed): the daemon is never left waiting without a timeout for
\* an external process that does not exit.
C18_EveryWaitIsBounded == pc # "blocked"

\* C16: in one session Popen is called for the methods 1, 2, ... in list
\* order, each call is made only when no recorder spawned before it runs, and
\* the recorder kept after its grace period is the one of the last call.
C16_BackendsInListOrder ==
    /\ Len(popen_calls) <= Len(recording_methods)
    /\ \A i \in 1 .. Len(popen_calls) : popen_calls[i] = i
    /\ pc = "popen" => method = Len(popen_calls) + 1 /\ alive = {}
    /\ pc = "sleep" => method = Len(popen_calls)
    /\ (recording /\ pc = "read") =>
           /\ recording_process # None
           /\ method = Len(popen_calls)
           /\ alive \subseteq {recording_process}

\* C16 witness: the third backend is recording after the first two failed.
C16_ThirdBackendAccepted ==
    /\ recording /\ pc = "read"
    /\ popen_calls = <<1, 2, 3>>
    /\ alive = {recording_process}

\* C15 (as claimed): when the daemon has exited on an interrupt, no recorder it
\* spawned is still running.
C15_ExitLeavesNoRecorder == pc = "exited" => alive = {}

\* C17 (as claimed): type_text runs only after an engine run that completed
\* with exit status 0 and left a non-empty transcript.
C17_DispatchOnlyAfterEngineSuccess ==
    pc \in {"type", "blocked"} =>
        /\ result.kind = "completed"
        /\ result.returncode = 0
        /\ transcription # <<>>

\* C19: a step of the loop that consumes an event which is not an event of the
\* trigger key leaves the daemon's fields, the recorder processes and the
\* files as they were, calls neither start_recording nor
\* stop_recording_and_transcribe, and returns to reading the next event.
C19_OtherEventsIgnored ==
    [][(/\ pc = "read"
        /\ pending # <<>>
        /\ pending' = Tail(pending)
        /\ ~(Head(pending).type = "EV_KEY" /\ Head(pending).code = RECORD_KEY))
       => /\ UNCHANGED <<daemon, procs, files, calls_start, calls_stop>>
          /\ pc' = "read"]_vars

\* A key other than the trigger key is read while a recording is in progress.
C19_OtherKeyWhileRecording ==
    /\ pc = "read"
    /\ recording
    /\ recording_key_pressed
    /\ pending # <<>>
    /\ Head(pending).type = "EV_KEY"
    /\ Head(pending).code # RECORD_KEY

\* ------------------------------------------- the sanitiser on its own
\* Lines 304-314 applied to every standard output of at most MaxStdoutLen
\* tokens.  "ESC[1;1H" (cursor position) is an escape sequence that neither
\* regular expression of lines 311-312 matches: the first needs a final m,
\* the second allows no semicolon.
MaxStdoutLen == 4

EscapeSequences == ColourCodes \cup ControlCodes \cup {"ESC[1;1H"}

StdoutTokens == {"hello"} \cup Whitespace \cup {Sentinel} \cup EscapeSequences

RECURSIVE SeqsUpTo(_, _)
SeqsUpTo(S, n) ==
    IF n = 0 THEN {<<>>}
    ELSE LET shorter == SeqsUpTo(S, n - 1)
         IN  shorter \cup {Append(s, t) : s \in {x \in shorter : Len(x) = n - 1},
                                          t \in S}

\* subprocess.run at line 296 has returned with some standard output.
SanitizeInit ==
    /\ recording = FALSE
    /\ recording_process = None
    /\ temp_audio = None
    /\ recording_key_pressed = FALSE
    /\ is_root \in BOOLEAN
    /\ devices = <<"keyboard">>
    /\ answer = NoAnswer
    /\ keyboard = 1
    /\ pc = "sanitize"
    /\ method = 0
    /\ popen_calls = <<>>
    /\ file_size = Absent
    /\ whisper_audio_file = None
    /\ resampled_audio = None
    /\ subprocess_bound = TRUE
    /\ transcription = <<>>
    /\ result \in [kind : {"completed"}, returncode : {0},
                    stdout : SeqsUpTo(StdoutTokens, MaxStdoutLen)]
    /\ pending = <<>>
    /\ nevents = 0
    /\ alive = {}
    /\ signalled = {}
    /\ files = [f \in FileIds |-> Absent]
    /\ calls_start = 0
    /\ calls_stop = 0
    /\ nstart = 0
    /\ outcomes = 0
    /\ outcome = "none"
    /\ stages = {}
    /\ captured_file = None
    /\ resample_result = "none"
    /\ engine_input = None
    /\ delivered = "none"
    /\ attempts = <<>>
    /\ succeeded = {}
    /\ reported_text = <<>>
    /\ busy_start = FALSE

\* Lines 304-314
sanitize ==
    /\ pc = "sanitize"
    /\ transcription' = transcription_of(result.stdout)
    /\ pc' = "sanitized"
    /\ UNCHANGED <<daemon, startup, method, popen_calls, file_size,
                   whisper_audio_file, resampled_audio, subprocess_bound,
                   result, pending, nevents, procs, files, calls_start,
                   calls_stop, history>>

SanitizeNext == sanitize

SanitizeSpec == SanitizeInit /\ [][SanitizeNext]_vars

\* The lines of s, a line being the tokens between two newlines.
RECURSIVE lines_of(_)
lines_of(s) ==
    LET breaks == {i \in 1 .. Len(s) : s[i] = "\n"}
    IN  IF breaks = {} THEN <<s>>
        ELSE LET i == CHOOSE k \in breaks : \A j \in breaks : k <= j
             IN  <<SubSeq(s, 1, i - 1)>> \o lines_of(SubSeq(s, i + 1, Len(s)))

\* The last line of s that holds something other than whitespace, <<>> if
\* there is none.
last_nonempty_line(s) ==
    LET ls == lines_of(s)
        full == {i \in 1 .. Len(ls) : strip(ls[i]) # <<>>}
    IN  IF full = {} THEN <<>>
        ELSE ls[CHOOSE i \in full : \A j \in full : j <= i]

\* C14 (as claimed): the transcript is the last non-empty line of standard
\* output with the end-of-text sentinel and every escape sequence removed and
\* the whitespace at both ends trimmed.
C14_TranscriptIsCleanLastLine ==
    pc = "sanitized" =>
        transcription =
            strip(without(last_nonempty_line(result.stdout),
                          {Sentinel} \cup EscapeSequences))

\* ------------------------------------------------- the keyboard resolver
MaxDevices == 3

\* A device is a physical keyboard, a keyboard whose name holds "virtual",
\* or a device without EV_KEY or without KEY_A.
DeviceKinds == {"keyboard", "virtual keyboard", "other"}

\* What input() at line 97 does: end of input raises EOFError; otherwise the
\* line read is blank, not a number, or a number.
Answers ==
    [kind : {"EOFError", "blank", "word"}, n : {0}]
        \cup [kind : {"number"}, n : 0 .. (MaxDevices + 1)]

\* find_keyboard was left by an exception.
Raised == 0 - 2

\* Lines 76-88: the physical keyboards, in the order of discovery.
keyboards(devs) ==
    SelectSeq([i \in 1 .. Len(devs) |-> i], LAMBDA i : devs[i] = "keyboard")

\* Lines 107-114: the first device with KEY_A, None if there is none.
first_any_keyboard(devs) ==
    LET found == {i \in 1 .. Len(devs) : devs[i] # "other"}
    IN  IF found = {} THEN None
        ELSE CHOOSE i \in found : \A j \in found : i <= j

\* Lines 73-116.  except (ValueError, IndexError) at line 103 does not catch
\* the EOFError of input().
find_keyboard(devs, ans) ==
    LET kbs == keyboards(devs)
        idx == ans.n - 1
    IN  IF kbs = <<>> THEN first_any_keyboard(devs)
        ELSE IF Len(kbs) = 1 THEN kbs[1]
        ELSE IF ans.kind = "EOFError" THEN Raised
        ELSE IF ans.kind = "number" /\ 0 <= idx /\ idx < Len(kbs)
             THEN kbs[idx + 1]
        ELSE kbs[1]

\* The constructor has run up to line 60.
ResolverInit ==
    /\ recording = FALSE
    /\ recording_process = None
    /\ temp_audio = None
    /\ recording_key_pressed = FALSE
    /\ is_root \in BOOLEAN
    /\ devices \in SeqsUpTo(DeviceKinds, MaxDevices)
    /\ answer \in Answers
    /\ keyboard = None
    /\ pc = "find_keyboard"
    /\ method = 0
    /\ popen_calls = <<>>
    /\ file_size = Absent
    /\ whisper_audio_file = None
    /\ resampled_audio = None
    /\ subprocess_bound = FALSE
    /\ transcription = <<>>
    /\ result = NoResult
    /\ pending = <<>>
    /\ nevents = 0
    /\ alive = {}
    /\ signalled = {}
    /\ files = [f \in FileIds |-> Absent]
    /\ calls_start = 0
    /\ calls_stop = 0
    /\ nstart = 0
    /\ outcomes = 0
    /\ outcome = "none"
    /\ stages = {}
    /\ captured_file = None
    /\ resample_result = "none"
    /\ engine_input = None
    /\ delivered = "none"
    /\ attempts = <<>>
    /\ succeeded = {}
    /\ reported_text = <<>>
    /\ busy_start = FALSE

\* Lines 61-65: self.keyboard = self.find_keyboard(); without a keyboard the
\* process exits with status 1, and an exception ends the constructor.
PushToTalkDaemon ==
    /\ pc = "find_keyboard"
    /\ LET found == find_keyboard(devices, answer)
       IN  IF found = Raised
           THEN pc' = "crashed" /\ UNCHANGED keyboard
           ELSE /\ keyboard' = found
                /\ pc' = IF found = None THEN "exited" ELSE "read"
    /\ UNCHANGED <<daemon, is_root, devices, answer, locals, pending, nevents,
                   procs, files, calls_start, calls_stop, history>>

ResolverNext == PushToTalkDaemon

ResolverSpec == ResolverInit /\ [][ResolverNext]_vars

\* C20 (as claimed): with more than one physical keyboard the resolver ends
\* with the keyboard named by a valid choice and otherwise, end of input
\* included, with the first one discovered; it does not fail.
C20_ResolverDefaultsToFirst ==
    (pc # "find_keyboard" /\ Len(keyboards(devices)) > 1) =>
        /\ pc = "read"
        /\ keyboard =
               IF answer.kind = "number" /\ answer.n \in 1 .. Len(keyboards(devices))
               THEN keyboards(devices)[answer.n]
               ELSE keyboards(devices)[1]

====
